---- MODULE Spec2Model ----
(***************************************************************************)
(* A model of maskedminers.py: the identity parser (Browser, Platform),    *)
(* the client-hint branding, the header block of MaskedMiner.__init__ and  *)
(* the class-level corpus state of Environment.                            *)
(*                                                                         *)
(* Python strings are modelled as sequences of one-character strings, so   *)
(* that find, split, strip, lower, startswith and int() are computed on    *)
(* the characters as the interpreter computes them.                        *)
(***************************************************************************)
EXTENDS Integers, Sequences, FiniteSets, TLC

VARIABLES
    ua,         \* SpecParse: the identity string handed to Browser / Platform
    pc,         \* SpecParse: position inside Environment.__init__ lines 256-258
    browser,    \* SpecParse: the Browser object (or the state of self at the raise)
    platform,   \* SpecParse: the Platform object (or the state of self at the raise)
    exc,        \* SpecParse: the exception that escaped, "" when none
    heap,       \* SpecMiner: the dict objects, by identity
    miners,     \* SpecMiner: the miners constructed so far
    hdrs,       \* SpecPolicy: the header dict the policy is applied to
    sess,       \* SpecPolicy: the Environment the policy is applied with
    applied,    \* SpecPolicy: how many times the header block has run on hdrs
    uas,        \* SpecCorpus: Environment.uas
    pcts,       \* SpecCorpus: Environment.pcts
    ready,      \* SpecCorpus: Environment.ready
    updated,    \* SpecCorpus: Environment.updated
    file,       \* SpecCorpus: user-agent.json: its content and modification time
    now,        \* SpecCorpus: time.time()
    call,       \* SpecCorpus: the Environment.update() call in progress
    last        \* SpecCorpus: the last class-level call and what it returned

vars == <<ua, pc, browser, platform, exc, heap, miners, hdrs, sess, applied,
          uas, pcts, ready, updated, file, now, call, last>>

parseVars == <<ua, pc, browser, platform, exc>>
minerVars == <<heap, miners>>
policyVars == <<hdrs, sess, applied>>
corpusVars == <<uas, pcts, ready, updated, file, now, call, last>>

-----------------------------------------------------------------------------
(* Bounds of the model.                                                    *)

\* the longest identity string of SpecParse, in segments of Segments
MaxSegs == 3

-----------------------------------------------------------------------------
(* Python str operations, on sequences of characters.                      *)

SetMin(S) == CHOOSE x \in S : \A y \in S : x <= y
SetMax(S) == CHOOSE x \in S : \A y \in S : x >= y

\* s[n:]
SliceFrom(s, n) == SubSeq(s, n + 1, Len(s))

\* the 0-based indices at which k occurs in s
Occurrences(s, k) ==
    {i \in 0..(Len(s) - Len(k)) : \A j \in 1..Len(k) : s[i + j] = k[j]}

\* s.find(k): the lowest index of k in s, -1 when absent
find(s, k) ==
    LET occ == Occurrences(s, k)
    IN  IF occ = {} THEN -1 ELSE SetMin(occ)

\* s.rfind(k)
rfind(s, k) ==
    LET occ == Occurrences(s, k)
    IN  IF occ = {} THEN -1 ELSE SetMax(occ)

\* k in s
contains(s, k) == find(s, k) >= 0

\* s.split(sep, maxsplit): the list of parts
RECURSIVE split(_, _, _)
split(s, sep, maxsplit) ==
    LET i == find(s, sep)
    IN  IF maxsplit = 0 \/ i < 0
        THEN <<s>>
        ELSE <<SubSeq(s, 1, i)>>
             \o split(SliceFrom(s, i + Len(sep)), sep, maxsplit - 1)

\* s.rsplit(sep, 1)
rsplit1(s, sep) ==
    LET i == rfind(s, sep)
    IN  IF i < 0
        THEN <<s>>
        ELSE <<SubSeq(s, 1, i), SliceFrom(s, i + Len(sep))>>

\* s.strip(chars), chars a set of characters
RECURSIVE lstrip(_, _)
lstrip(s, chars) ==
    IF s # <<>> /\ Head(s) \in chars THEN lstrip(Tail(s), chars) ELSE s

RECURSIVE rstrip(_, _)
rstrip(s, chars) ==
    IF s # <<>> /\ s[Len(s)] \in chars
    THEN rstrip(SubSeq(s, 1, Len(s) - 1), chars)
    ELSE s

strip(s, chars) == rstrip(lstrip(s, chars), chars)

\* s.startswith(p)
startswith(s, p) == Len(p) <= Len(s) /\ SubSeq(s, 1, Len(p)) = p

UpperChars == <<"A", "B", "C", "D", "E", "F", "G", "H", "I", "J", "K", "L", "M", "N", "O", "P", "Q", "R", "S", "T", "U", "V", "W", "X", "Y", "Z">>
LowerChars == <<"a", "b", "c", "d", "e", "f", "g", "h", "i", "j", "k", "l", "m", "n", "o", "p", "q", "r", "s", "t", "u", "v", "w", "x", "y", "z">>

\* c.lower() of one character
lowerChar(c) ==
    IF \E i \in 1..Len(UpperChars) : UpperChars[i] = c
    THEN LowerChars[CHOOSE i \in 1..Len(UpperChars) : UpperChars[i] = c]
    ELSE c

\* s.lower()
lower(s) == [i \in 1..Len(s) |-> lowerChar(s[i])]

\* sep.join(parts)
RECURSIVE join(_, _)
join(sep, parts) ==
    IF parts = <<>> THEN <<>>
    ELSE IF Len(parts) = 1 THEN parts[1]
    ELSE parts[1] \o sep \o join(sep, Tail(parts))

DigitChars == <<"0", "1", "2", "3", "4", "5", "6", "7", "8", "9">>
\* the ASCII characters int() strips: space, \t, \n, \r, \f and the
\* vertical tab \x0b (the last string below holds that one character)
WhiteSpace == {" ", "\t", "\n", "\r", "\f", ""}

IsDigit(c) == \E d \in 1..10 : DigitChars[d] = c
DigitVal(c) == (CHOOSE d \in 1..10 : DigitChars[d] = c) - 1

\* the value of a string of digits and single underscores between them
RECURSIVE DigitsValue(_, _)
DigitsValue(s, acc) ==
    IF s = <<>> THEN acc
    ELSE IF Head(s) = "_" THEN DigitsValue(Tail(s), acc)
    ELSE DigitsValue(Tail(s), 10 * acc + DigitVal(Head(s)))

\* whether int() accepts the unsigned body: digits, single underscores
\* only between digits
IsIntBody(s) ==
    /\ s # <<>>
    /\ \A i \in 1..Len(s) : IsDigit(s[i]) \/ s[i] = "_"
    /\ IsDigit(s[1]) /\ IsDigit(s[Len(s)])
    /\ \A i \in 1..(Len(s) - 1) : ~(s[i] = "_" /\ s[i + 1] = "_")

\* int(s): [ok |-> TRUE, val |-> n], or ok = FALSE where int raises ValueError
int(s) ==
    LET t == strip(s, WhiteSpace)
        signed == t # <<>> /\ t[1] \in {"+", "-"}
        body == IF signed THEN Tail(t) ELSE t
    IN  IF IsIntBody(body)
        THEN [ok |-> TRUE,
              val |-> IF signed /\ t[1] = "-"
                      THEN 0 - DigitsValue(body, 0)
                      ELSE DigitsValue(body, 0)]
        ELSE [ok |-> FALSE, val |-> 0]

\* str(n) of an integer
RECURSIVE strNat(_)
strNat(n) ==
    IF n < 10 THEN <<DigitChars[n + 1]>>
    ELSE strNat(n \div 10) \o <<DigitChars[(n % 10) + 1]>>

str(n) == IF n < 0 THEN <<"-">> \o strNat(0 - n) ELSE strNat(n)

-----------------------------------------------------------------------------
(* class Browser                                                           *)

NONE == 0
CHROME == 1
EDGE == 2
FIREFOX == 3
OPERA == 4
SAFARI == 5

\* Python's None, which is no string
None == <<"None">>

\* Browser.__brands, indexed by type + 1
BrowserBrands ==
    <<None, <<"G", "o", "o", "g", "l", "e", " ", "C", "h", "r", "o", "m", "e">>, <<"M", "i", "c", "r", "o", "s", "o", "f", "t", " ", "E", "d", "g", "e">>, None, <<"O", "p", "e", "r", "a">>, None>>

\* Browser.__keywords, indexed by type + 1
BrowserKeywords ==
    <<<<>>, <<"C", "h", "r", "o", "m", "e">>, <<"E", "d", "g">>, <<"F", "i", "r", "e", "f", "o", "x">>, <<"O", "P", "R">>, <<"S", "a", "f", "a", "r", "i">>>>

keyword(b) == BrowserKeywords[b + 1]

\* int(ua[i + len(k) + 1:].split('.', 1)[0])
versionAt(s, i, k) == int(split(SliceFrom(s, i + Len(k) + 1), <<".">>, 1)[1])

\* self at lines 141-143
NewBrowser ==
    [type |-> NONE, version |-> -1, chromium_version |-> -1,
     branding |-> <<>>, brands |-> <<>>, raised |-> ""]

\* a ValueError escapes from int() with self as it is
raiseValueError(self) == [self EXCEPT !.raised = "ValueError"]

\* lines 148-150: the Firefox branch
firefoxBranch(self, s) ==
    LET k == keyword(FIREFOX)
        i == find(s, k)
        v == versionAt(s, i, k)
    IN  IF v.ok
        THEN [self EXCEPT !.type = FIREFOX, !.version = v.val]
        ELSE raiseValueError([self EXCEPT !.type = FIREFOX])

\* lines 152-158: the first of Edge, Opera whose keyword is found
RECURSIVE edgeOperaLoop(_, _, _)
edgeOperaLoop(self, s, bs) ==
    IF bs = <<>> THEN self
    ELSE LET k == keyword(Head(bs))
             i == find(s, k)
             v == versionAt(s, i, k)
         IN  IF i >= 0
             THEN IF v.ok
                  THEN [self EXCEPT !.type = Head(bs), !.version = v.val]
                  ELSE raiseValueError([self EXCEPT !.type = Head(bs)])
             ELSE edgeOperaLoop(self, s, Tail(bs))

\* lines 163-165 without the test of line 163: a Chrome token always names
\* the browser
chromeNamesBrowserUnguarded(self) ==
    [self EXCEPT !.type = CHROME, !.version = self.chromium_version]

\* lines 163-165: a Chrome token names the browser only when no other did
chromeNamesBrowser(self) ==
    IF self.type = NONE
    THEN [self EXCEPT !.type = CHROME, !.version = self.chromium_version]
    ELSE self

\* lines 159-171: the Chrome token, else the Safari token
chromeOrSafari(self, s) ==
    LET kc == keyword(CHROME)
        ic == find(s, kc)
        vc == versionAt(s, ic, kc)
        ks == keyword(SAFARI)
        is == find(s, ks)
        vs == versionAt(s, is, ks)
    IN  IF ic >= 0
        THEN IF vc.ok
             THEN chromeNamesBrowser([self EXCEPT !.chromium_version = vc.val])
             ELSE raiseValueError(self)
        ELSE IF is >= 0
             THEN IF vs.ok
                  THEN [self EXCEPT !.type = SAFARI, !.version = vs.val]
                  ELSE raiseValueError([self EXCEPT !.type = SAFARI])
             ELSE self

\* lines 145-171: the browser indicated by the user-agent
detect(s) ==
    IF find(s, keyword(FIREFOX)) >= 0
    THEN firefoxBranch(NewBrowser, s)
    ELSE LET eo == edgeOperaLoop(NewBrowser, s, <<EDGE, OPERA>>)
         IN  IF eo.raised # "" THEN eo ELSE chromeOrSafari(eo, s)

\* Browser.uses_chromium
uses_chromium(self) == self.chromium_version >= 0


\* line 175
misc == <<<<>>, <<" ">>, <<"_">>, <<";">>, <<"(">>, <<")">>>>

\* line 177: random.randint(1, 100)
FakeVersionMin == 1
FakeVersionMax == 100

\* the orders random.shuffle can leave a list of three in
Shuffles ==
    {<<1, 2, 3>>, <<1, 3, 2>>, <<2, 1, 3>>, <<2, 3, 1>>, <<3, 1, 2>>, <<3, 2, 1>>}

\* The outcomes of the random module that the model draws from: the three
\* random.choice(misc) indices, the randint value, the shuffle.
MiscDraws == {<<1, 1, 1>>, <<2, 5, 3>>}
FakeVersionDraws == {FakeVersionMin, FakeVersionMax}
RandomDraws ==
    [misc : MiscDraws, fake : FakeVersionDraws, perm : Shuffles]

\* line 176
fakeBrand(r) ==
    misc[r.misc[1]] \o <<"N", "o", "t">> \o misc[r.misc[2]] \o <<"A">>
    \o misc[r.misc[3]] \o <<"B", "r", "a", "n", "d">>

\* lines 178-182: the list before the shuffle
brandList(self, r) ==
    << <<fakeBrand(r), r.fake>>,
       <<BrowserBrands[self.type + 1], self.version>>,
       <<<<"C", "h", "r", "o", "m", "i", "u", "m">>, self.chromium_version>> >>

\* line 183
shuffle(list, perm) == [i \in 1..Len(list) |-> list[perm[i]]]

\* f'{x}' of a str or of None
fstr(x) == IF x = None THEN <<"N", "o", "n", "e">> ELSE x

\* line 184: f'"{brand[0]}"; v="{brand[1]}"'
formatBrand(brand) ==
    <<"\"">> \o fstr(brand[1]) \o <<"\"", ";", " ", "v", "=", "\"">> \o str(brand[2]) \o <<"\"">>

\* lines 173-186: the branding data
setBranding(self, r) ==
    IF uses_chromium(self)
    THEN LET brands == shuffle(brandList(self, r), r.perm)
         IN  [self EXCEPT
                 !.brands = brands,
                 !.branding = join(<<",", " ">>,
                                   [i \in 1..Len(brands) |-> formatBrand(brands[i])])]
    ELSE [self EXCEPT !.branding = <<>>]

\* Browser.__init__(ua), with r what the random module returns
Browser(s, r) ==
    LET self == detect(s)
    IN  IF self.raised # "" THEN self ELSE setBranding(self, r)

\* what Browser(ua) can return, over the outcomes of the random module
BrowserOutcomes(s, draws) ==
    LET self == detect(s)
    IN  IF self.raised # "" THEN {self}
        ELSE {setBranding(self, r) : r \in draws}

-----------------------------------------------------------------------------
(* class Platform                                                          *)

\* self at lines 208-210: type is only annotated, is_mobile not yet set;
\* attrs holds the names of the attributes the object has
NewPlatform ==
    [attrs |-> {"os", "os_version"}, type |-> <<>>, os |-> <<>>,
     os_version |-> <<>>, is_mobile |-> FALSE, diag |-> FALSE, raised |-> ""]

platformRaise(self, e) == [self EXCEPT !.raised = e]

\* lines 215-217
windowsBranch(self, system_info) ==
    LET t == [self EXCEPT !.type = split(system_info, <<";">>, 1)[1],
                          !.attrs = @ \cup {"type"}]
        parts == split(system_info, <<" ">>, 1)
    IN  IF Len(parts) = 2
        THEN [t EXCEPT !.os = parts[1], !.os_version = parts[2]]
        ELSE platformRaise(t, "ValueError")

\* lines 218-220
macintoshBranch(self, system_info) ==
    LET t == [self EXCEPT !.type = <<"M", "a", "c", "i", "n", "t", "o", "s", "h">>, !.attrs = @ \cup {"type"}]
        rest == split(system_info, <<";", " ">>, 1)
        parts == rsplit1(rest[2], <<" ">>)
    IN  IF Len(rest) < 2 THEN platformRaise(t, "IndexError")
        ELSE IF Len(parts) = 2
        THEN [t EXCEPT !.os = parts[1], !.os_version = parts[2]]
        ELSE platformRaise(t, "ValueError")

\* lines 221-223
x11Branch(self, system_info) ==
    LET t == [self EXCEPT !.type = <<"L", "i", "n", "u", "x">>, !.attrs = @ \cup {"type"}]
        parts == split(system_info, <<" ">>, 2)
    IN  IF Len(parts) < 2 THEN platformRaise(t, "IndexError")
        ELSE [t EXCEPT !.os = strip(parts[2], {";"})]

\* lines 224-226
otherBranch(self, s) ==
    [self EXCEPT !.diag = TRUE, !.type = split(s, <<" ">>, 1)[1],
                 !.attrs = @ \cup {"type"}]

\* Platform.__init__(ua)
Platform(s) ==
    IF Len(s) > 0
    THEN LET m == [NewPlatform EXCEPT !.is_mobile = FALSE,
                                      !.attrs = @ \cup {"is_mobile"}]
             open == split(s, <<"(">>, 1)
             system_info == split(open[2], <<")">>, 1)[1]
         IN  IF Len(open) < 2 THEN platformRaise(m, "IndexError")
             ELSE IF contains(system_info, <<"W", "i", "n", "d", "o", "w", "s">>)
             THEN windowsBranch(m, system_info)
             ELSE IF contains(system_info, <<"M", "a", "c", "i", "n", "t", "o", "s", "h">>)
             THEN macintoshBranch(m, system_info)
             ELSE IF contains(system_info, <<"X", "1", "1">>)
             THEN x11Branch(m, system_info)
             ELSE otherBranch(m, s)
    ELSE [NewPlatform EXCEPT !.diag = TRUE]

-----------------------------------------------------------------------------
(* SpecParse: Environment.__init__ lines 256-258 on one identity string:   *)
(* Browser(ua), then Platform(ua).                                         *)

\* Three user-agents of the kind user-agent.json holds.
UA_Edge ==
    <<"M", "o", "z", "i", "l", "l", "a", "/", "5", ".", "0", " ", "(", "W", "i", "n", "d", "o", "w", "s", " ", "N", "T", " ", "1", "0", ".", "0", ";", " ", "W", "i", "n", "6", "4", ";", " ", "x", "6", "4", ")", " ", "A", "p", "p", "l", "e", "W", "e", "b", "K", "i", "t", "/", "5", "3", "7", ".", "3", "6", " ", "C", "h", "r", "o", "m", "e", "/", "1", "1", "9", ".", "0", ".", "0", ".", "0", " ", "S", "a", "f", "a", "r", "i", "/", "5", "3", "7", ".", "3", "6", " ", "E", "d", "g", "/", "1", "1", "9", ".", "0", ".", "2", "1", "5", "1", ".", "5", "8">>
UA_Firefox ==
    <<"M", "o", "z", "i", "l", "l", "a", "/", "5", ".", "0", " ", "(", "W", "i", "n", "d", "o", "w", "s", " ", "N", "T", " ", "1", "0", ".", "0", ";", " ", "W", "i", "n", "6", "4", ";", " ", "x", "6", "4", ";", " ", "r", "v", ":", "1", "0", "9", ".", "0", ")", " ", "G", "e", "c", "k", "o", "/", "2", "0", "1", "0", "0", "1", "0", "1", " ", "F", "i", "r", "e", "f", "o", "x", "/", "1", "2", "0", ".", "0">>
UA_Safari ==
    <<"M", "o", "z", "i", "l", "l", "a", "/", "5", ".", "0", " ", "(", "M", "a", "c", "i", "n", "t", "o", "s", "h", ";", " ", "I", "n", "t", "e", "l", " ", "M", "a", "c", " ", "O", "S", " ", "X", " ", "1", "0", "_", "1", "5", "_", "7", ")", " ", "A", "p", "p", "l", "e", "W", "e", "b", "K", "i", "t", "/", "6", "0", "5", ".", "1", ".", "1", "5", " ", "V", "e", "r", "s", "i", "o", "n", "/", "1", "7", ".", "1", " ", "S", "a", "f", "a", "r", "i", "/", "6", "0", "5", ".", "1", ".", "1", "5">>

\* The pieces identity strings are put together from: whole user-agents,
\* a system-info section, product tokens, and malformed ones.
Segments ==
    { UA_Edge, UA_Firefox, UA_Safari,
      <<"(", "W", "i", "n", "d", "o", "w", "s", " ", "N", "T", " ", "1", "0", ".", "0", ";", " ", "W", "i", "n", "6", "4", ";", " ", "x", "6", "4", ")", " ">>,
      <<"C", "h", "r", "o", "m", "e", "/", "1", "1", "9", ".", "0", ".", "0", ".", "0", " ">>,
      <<"S", "a", "f", "a", "r", "i", "/", "5", "3", "7", ".", "3", "6", " ">>,
      <<"E", "d", "g", "/", "1", "2", "0", ".", "0", ".", "2", "1", "5", "1", ".", "5", "8", " ">>,
      <<"O", "P", "R", "/", "1", "0", "5", ".", "0", ".", "0", ".", "0", " ">>,
      <<"F", "i", "r", "e", "f", "o", "x", "/", "1", "2", "0", ".", "0">>,
      <<"F", "i", "r", "e", "f", "o", "x", "/", "a", "b", "c">>,
      <<"E", "d", "g">>,
      <<"C", "h", "r", "o", "m", "e", "/", "x", ".", "1", " ">>,
      <<"c", "u", "r", "l", "/", "8", ".", "0">> }

RECURSIVE IdentitiesOf(_)
IdentitiesOf(n) ==
    IF n = 0 THEN {<<>>}
    ELSE IdentitiesOf(n - 1)
         \cup {s \o g : s \in IdentitiesOf(n - 1), g \in Segments}

Identities == IdentitiesOf(MaxSegs)

ParseIdle ==
    /\ ua = <<>>
    /\ pc = "idle"
    /\ browser = NewBrowser
    /\ platform = NewPlatform
    /\ exc = ""

MinerIdle == heap = <<>> /\ miners = <<>>

PolicyIdle == hdrs = <<>> /\ sess = <<>> /\ applied = 0

CorpusIdle ==
    /\ uas = <<>>
    /\ pcts = <<>>
    /\ ready = FALSE
    /\ updated = FALSE
    /\ file = <<>>
    /\ now = 0
    /\ call = <<>>
    /\ last = <<>>

InitParse ==
    /\ ua \in Identities
    /\ pc = "start"
    /\ browser = NewBrowser
    /\ platform = NewPlatform
    /\ exc = ""
    /\ MinerIdle /\ PolicyIdle /\ CorpusIdle

\* line 257: self.browser = Browser(self.ua)
BrowserInit ==
    /\ pc = "start"
    /\ browser' \in BrowserOutcomes(ua, RandomDraws)
    /\ exc' = browser'.raised
    /\ pc' = IF browser'.raised = "" THEN "browser" ELSE "raised"
    /\ UNCHANGED <<ua, platform>>
    /\ UNCHANGED <<minerVars, policyVars, corpusVars>>

\* line 258: self.platform = Platform(self.ua)
PlatformInit ==
    /\ pc = "browser"
    /\ platform' = Platform(ua)
    /\ exc' = platform'.raised
    /\ pc' = IF platform'.raised = "" THEN "done" ELSE "raised"
    /\ UNCHANGED <<ua, browser>>
    /\ UNCHANGED <<minerVars, policyVars, corpusVars>>

NextParse == BrowserInit \/ PlatformInit

SpecParse == InitParse /\ [][NextParse]_vars


-----------------------------------------------------------------------------
(* Environment.__init__ lines 255-258, on the class-level corpus           *)

\* itertools.accumulate(weights)
RECURSIVE sumTo(_, _)
sumTo(weights, i) == IF i = 0 THEN 0 ELSE sumTo(weights, i - 1) + weights[i]

accumulate(weights) == [i \in 1..Len(weights) |-> sumTo(weights, i)]

\* bisect.bisect(a, x, lo, hi), on 0-based positions
RECURSIVE bisect(_, _, _, _)
bisect(a, x, lo, hi) ==
    IF lo < hi
    THEN IF x < a[((lo + hi) \div 2) + 1]
         THEN bisect(a, x, lo, (lo + hi) \div 2)
         ELSE bisect(a, x, ((lo + hi) \div 2) + 1, hi)
    ELSE lo

\* line 256: the exception random.choices(population, weights) raises: on
\* lists of different lengths, on an empty population, on weights whose
\* total is not positive; "" when none
choicesRaises(population, weights) ==
    IF Len(weights) # Len(population) THEN "ValueError"
    ELSE IF Len(population) = 0 THEN "IndexError"
    ELSE IF sumTo(weights, Len(weights)) <= 0 THEN "ValueError"
    ELSE ""

\* line 256: what random.choices(population, weights)[0] can return:
\* population[bisect(cum_weights, random() * total, 0, n - 1)]. The result
\* is the same for every point between two neighbouring cumulative weights,
\* so 0 and the cumulative weights below the total stand for all points.
choices(population, weights) ==
    LET cum == accumulate(weights)
        total == cum[Len(cum)]
        points == {0} \cup {cum[i] : i \in {j \in 1..Len(cum) :
                                              cum[j] >= 0 /\ cum[j] < total}}
    IN  {population[bisect(cum, x, 0, Len(population) - 1) + 1] : x \in points}

\* the Environment built around the drawn user-agent s
environmentOf(s, b) ==
    [ua |-> s, browser |-> b, platform |-> Platform(s),
     raised |-> IF b.raised # "" THEN b.raised ELSE Platform(s).raised]

\* lines 255-258: the Environments the constructor can return on a loaded
\* corpus, over the outcomes of the random module (raised # "" where the
\* constructor raises instead)
Environments(population, weights, draws) ==
    UNION {{environmentOf(s, b) : b \in BrowserOutcomes(s, draws)} :
              s \in choices(population, weights)}

-----------------------------------------------------------------------------
(* The header block of MaskedMiner.__init__ and of its subclasses.         *)
(* A dict is a function from its keys to their values.                     *)

EmptyDict == <<>>

\* d[k] = v in place of d.setdefault(k, v)
setdefaultOverwrites(d, k, v) ==
    [x \in DOMAIN d \cup {k} |-> IF x = k THEN v ELSE d[x]]

\* d.setdefault(k, v)
setdefault(d, k, v) == IF k \in DOMAIN d THEN d ELSE d @@ (k :> v)

\* line 341 without lower()
isSecHeaderCaseSensitive(header) == startswith(header, <<"s", "e", "c", "-">>)

\* line 341: header.lower().startswith('sec-')
isSecHeader(header) == startswith(lower(header), <<"s", "e", "c", "-">>)

\* lines 340-342: every key that is a sec- header is deleted
stripSec(d) == [k \in {h \in DOMAIN d : ~isSecHeader(h)} |-> d[k]]

\* f'?{int(is_mobile)}'
mobileHint(is_mobile) == <<"?">> \o str(IF is_mobile THEN 1 ELSE 0)

\* lines 331-342: the header block, on the dict headers
headerBlock(headers, environment) ==
    LET h1 == setdefault(headers, <<"a", "c", "c", "e", "p", "t", "-", "l", "a", "n", "g", "u", "a", "g", "e">>, <<"e", "n", "-", "U", "S", ",", "e", "n", ";", "q", "=", "0", ".", "9">>)
        h2 == setdefault(h1, <<"d", "n", "t">>, <<"1">>)
        h3 == setdefault(h2, <<"u", "s", "e", "r", "-", "a", "g", "e", "n", "t">>, environment.ua)
        c1 == setdefault(h3, <<"s", "e", "c", "-", "c", "h", "-", "u", "a">>, environment.browser.branding)
        c2 == setdefault(c1, <<"s", "e", "c", "-", "c", "h", "-", "u", "a", "-", "m", "o", "b", "i", "l", "e">>,
                         mobileHint(environment.platform.is_mobile))
        c3 == setdefault(c2, <<"s", "e", "c", "-", "c", "h", "-", "u", "a", "-", "p", "l", "a", "t", "f", "o", "r", "m">>,
                         <<"\"">> \o environment.platform.type \o <<"\"">>)
    IN  IF uses_chromium(environment.browser) THEN c3 ELSE stripSec(h3)

\* lines 413-414 and 443-444: what a subclass sets before it calls
\* MaskedMiner.__init__
subclassBlock(cls, headers) ==
    IF cls = "MaskedMinerJSON"
    THEN setdefault(setdefault(headers, <<"a", "c", "c", "e", "p", "t">>, <<"a", "p", "p", "l", "i", "c", "a", "t", "i", "o", "n", "/", "j", "s", "o", "n">>),
                    <<"a", "c", "c", "e", "p", "t", "-", "e", "n", "c", "o", "d", "i", "n", "g">>, <<"g", "z", "i", "p", ",", " ", "d", "e", "f", "l", "a", "t", "e", ",", " ", "b", "r">>)
    ELSE IF cls = "MaskedMinerLXML"
    THEN setdefault(setdefault(headers, <<"a", "c", "c", "e", "p", "t">>, <<"t", "e", "x", "t", "/", "h", "t", "m", "l">>),
                    <<"a", "c", "c", "e", "p", "t", "-", "e", "n", "c", "o", "d", "i", "n", "g">>, <<"g", "z", "i", "p", ",", " ", "d", "e", "f", "l", "a", "t", "e", ",", " ", "b", "r">>)
    ELSE headers

Classes == {"MaskedMiner", "MaskedMinerJSON", "MaskedMinerLXML"}

\* The object each constructor's default argument "headers:dict = {}" is
\* bound to: one dict per function, made when the function is defined.
defaultHeaders(cls) ==
    IF cls = "MaskedMiner" THEN 1
    ELSE IF cls = "MaskedMinerJSON" THEN 2
    ELSE 3

-----------------------------------------------------------------------------
(* SpecPolicy: the header block applied, again and again, to one dict      *)
(* with one Environment.                                                   *)

\* how many times the header block is applied
MaxApply == 2

\* the corpus the Environments of SpecPolicy and SpecMiner are drawn from
SampleUas == <<UA_Edge, UA_Firefox, UA_Safari>>
SamplePcts == <<30, 20, 10>>

\* headers a caller may have set before the call
CallerKeys ==
    {<<"u", "s", "e", "r", "-", "a", "g", "e", "n", "t">>, <<"s", "e", "c", "-", "c", "h", "-", "u", "a">>, <<"S", "e", "c", "-", "F", "e", "t", "c", "h", "-", "M", "o", "d", "e">>, <<"S", "E", "C", "-", "G", "P", "C">>, <<"x", "-", "t", "r", "a", "c", "e">>}

CallerDicts == UNION {[K -> {<<"c", "a", "l", "l", "e", "r">>}] : K \in SUBSET CallerKeys}

\* Environment() on the sample corpus
PolicyEnvironments ==
    {e \in Environments(SampleUas, SamplePcts, RandomDraws) : e.raised = ""}

InitPolicy ==
    /\ hdrs \in CallerDicts
    /\ sess \in PolicyEnvironments
    /\ applied = 0
    /\ ParseIdle /\ MinerIdle /\ CorpusIdle

\* lines 331-342 on hdrs with the Environment sess
Apply ==
    /\ applied < MaxApply
    /\ hdrs' = headerBlock(hdrs, sess)
    /\ applied' = applied + 1
    /\ UNCHANGED sess
    /\ UNCHANGED <<parseVars, minerVars, corpusVars>>

NextPolicy == Apply

SpecPolicy == InitPolicy /\ [][NextPolicy]_vars


-----------------------------------------------------------------------------
(* SpecMiner: a sequence of MaskedMiner, MaskedMinerJSON and               *)
(* MaskedMinerLXML constructions in one process, the corpus loaded.        *)

\* how many miners are constructed
MaxMiners == 2

\* the outcomes of the random module SpecMiner draws from
MinerDraws ==
    {r \in RandomDraws : /\ r.misc = <<1, 1, 1>>
                         /\ r.fake = FakeVersionMin
                         /\ r.perm \in {<<1, 2, 3>>, <<3, 1, 2>>}}

\* the dicts a caller passes as headers
MinerCallerDicts ==
    {d \in CallerDicts :
        DOMAIN d \in {{<<"u", "s", "e", "r", "-", "a", "g", "e", "n", "t">>}, {<<"S", "e", "c", "-", "F", "e", "t", "c", "h", "-", "M", "o", "d", "e">>, <<"x", "-", "t", "r", "a", "c", "e">>},
                      {<<"s", "e", "c", "-", "c", "h", "-", "u", "a">>, <<"S", "E", "C", "-", "G", "P", "C">>}}}

InitMiner ==
    /\ heap = <<EmptyDict, EmptyDict, EmptyDict>>
    /\ miners = <<>>
    /\ uas = SampleUas
    /\ pcts = SamplePcts
    /\ ready = TRUE
    /\ updated = FALSE
    /\ file = <<>>
    /\ now = 0
    /\ call = <<>>
    /\ last = <<>>
    /\ ParseIdle /\ PolicyIdle

\* Environment() on the corpus of InitMiner, which no action of SpecMiner
\* changes
MinerEnvironments ==
    {e \in Environments(SampleUas, SamplePcts, MinerDraws) : e.raised = ""}

\* lines 326-329: the Environment passed in, or a new one
environmentArg ==
    MinerEnvironments \cup {miners[i].environment : i \in 1..Len(miners)}

\* the constructor of cls on the dict object d, which holds h0 at the call
construct(cls, d, h0, given, environment) ==
    LET h == headerBlock(subclassBlock(cls, h0), environment)
    IN  /\ heap' = [i \in 1..(IF d > Len(heap) THEN d ELSE Len(heap)) |->
                       IF i = d THEN h ELSE heap[i]]
        /\ miners' = Append(miners,
                            [cls |-> cls, environment |-> environment,
                             headers |-> d, given |-> given, sent |-> h])

\* cls(url): the headers argument left out, so the default dict is used
ConstructDefault ==
    /\ Len(miners) < MaxMiners
    /\ \E cls \in Classes, environment \in environmentArg :
          construct(cls, defaultHeaders(cls), heap[defaultHeaders(cls)], {},
                    environment)
    /\ UNCHANGED <<parseVars, policyVars, corpusVars>>

\* cls(url, headers): the caller passes a dict of its own
ConstructWith ==
    /\ Len(miners) < MaxMiners
    /\ \E cls \in Classes, headers \in MinerCallerDicts,
          environment \in environmentArg :
          construct(cls, Len(heap) + 1, headers, DOMAIN headers, environment)
    /\ UNCHANGED <<parseVars, policyVars, corpusVars>>

NextMiner == ConstructDefault \/ ConstructWith

SpecMiner == InitMiner /\ [][NextMiner]_vars


-----------------------------------------------------------------------------
(* SpecCorpus: the class-level state of Environment, the file              *)
(* user-agent.json and the clock.                                          *)

\* Environment.__SEC_DAY
SEC_DAY == 86400

\* the clock runs to MaxDays days and a second
MaxDays == 1

\* the longest list of records in a source
MaxAgents == 1

\* the instants the clock is observed at: the start, and around each whole
\* day after it
Instants ==
    {0} \cup {k * SEC_DAY + j : k \in 1..MaxDays, j \in {-1, 0, 1}}

\* identities of a source: a desktop identity, and a tool's, which has no
\* system information
UA_Linux == <<"M", "o", "z", "i", "l", "l", "a", "/", "5", ".", "0", " ", "(", "X", "1", "1", ";", " ", "L", "i", "n", "u", "x", " ", "x", "8", "6", "_", "6", "4", ")", " ", "F", "i", "r", "e", "f", "o", "x", "/", "1", "2", "0", ".", "0">>
UA_Tool == <<"c", "u", "r", "l", "/", "8", ".", "0">>

\* records of a source: a whole one, one without 'pct', one without 'ua'
Agents ==
    { ("ua" :> UA_Linux) @@ ("pct" :> 30),
      ("ua" :> UA_Tool),
      ("pct" :> 10) }

RECURSIVE AgentLists(_)
AgentLists(n) ==
    IF n = 0 THEN {<<>>}
    ELSE AgentLists(n - 1)
         \cup {Append(l, a) : l \in AgentLists(n - 1), a \in Agents}

\* what json.loads makes of a string: it raises (decodes = FALSE), or
\* returns a list of records
Undecodable == [decodes |-> FALSE, agents |-> <<>>]

Documents ==
    {Undecodable} \cup {[decodes |-> TRUE, agents |-> l] : l \in AgentLists(MaxAgents)}

\* the empty string, '': json.loads raises on it, and a file that was
\* truncated holds it
EmptyContent == [whole |-> Undecodable, first |-> Undecodable, empty |-> TRUE]

\* A string that is not empty, by what json.loads makes of the whole of it
\* and of its first line. A string of one line has the two alike; the first
\* line of a longer string that decodes is an unfinished text; any line can
\* stand before text that does not decode.
Strings ==
    {[whole |-> d, first |-> d, empty |-> FALSE] : d \in Documents}
    \cup {[whole |-> d, first |-> Undecodable, empty |-> FALSE] :
             d \in Documents \ {Undecodable}}
    \cup {[whole |-> Undecodable, first |-> d, empty |-> FALSE] :
             d \in Documents \ {Undecodable}}

Contents == Strings \cup {EmptyContent}

OneLineContents == {c \in Contents : c.first = c.whole}

\* user-agent.json is not there
NoFile == [exists |-> FALSE, content |-> EmptyContent, mtime |-> 0]

\* line 266: json.loads(content)
loads(content) == content.whole

\* line 252: file.readline(), the first line of the file as a string
readline(content) ==
    [whole |-> content.first, first |-> content.first, empty |-> content.empty]

uasOf(agents) == [i \in 1..Len(agents) |-> agents[i]["ua"]]
pctsOf(agents) == [i \in 1..Len(agents) |-> agents[i]["pct"]]

\* Environment.load_content(content): the class attributes it leaves, and
\* the exception it raises ("" when none)
load_content(content) ==
    LET agents == loads(content).agents
        same == [uas |-> uas, pcts |-> pcts, ready |-> ready]
    IN  IF ~loads(content).decodes
        THEN same @@ [raised |-> "JSONDecodeError"]
        ELSE IF \E i \in 1..Len(agents) : "ua" \notin DOMAIN agents[i]
        THEN same @@ [raised |-> "KeyError"]
        ELSE IF \E i \in 1..Len(agents) : "pct" \notin DOMAIN agents[i]
        THEN [uas |-> uasOf(agents), pcts |-> pcts, ready |-> ready,
              raised |-> "KeyError"]
        ELSE [uas |-> uasOf(agents), pcts |-> pctsOf(agents), ready |-> TRUE,
              raised |-> ""]

\* Environment.needs_update(): what it returns, or the exception of
\* os.path.getmtime when the file is not there
needs_update ==
    IF updated THEN [raised |-> "", value |-> FALSE]
    ELSE IF ~file.exists THEN [raised |-> "FileNotFoundError", value |-> FALSE]
    ELSE [raised |-> "", value |-> file.mtime < now - SEC_DAY]

\* a value of json_str: None, or a string
JsonNone == [none |-> TRUE, text |-> EmptyContent]
JsonStr(text) == [none |-> FALSE, text |-> text]
JsonStrs == {JsonNone} \cup {JsonStr(c) : c \in Contents}

\* the most regions of the section of a page
MaxRegions == 2

\* a div of the section: its first h3 (none, or one with a text), and the
\* text of its first textarea (no textarea, None for an empty one, or a
\* string that is not empty)
Regions ==
    {[h3 |-> "absent", textarea |-> JsonNone, has |-> FALSE],
     [h3 |-> "CSV", textarea |-> JsonNone, has |-> TRUE],
     [h3 |-> "JSON", textarea |-> JsonNone, has |-> FALSE]}
    \cup {[h3 |-> "JSON", textarea |-> j, has |-> TRUE] :
             j \in {JsonNone} \cup {JsonStr(c) : c \in Strings}}

RECURSIVE RegionLists(_)
RegionLists(n) ==
    IF n = 0 THEN {<<>>}
    ELSE RegionLists(n - 1)
         \cup {Append(l, r) : l \in RegionLists(n - 1), r \in Regions}

\* the tree of a page: whether it has the section, and the section's divs
Doms ==
    {[section |-> FALSE, regions |-> <<>>]}
    \cup {[section |-> TRUE, regions |-> l] : l \in RegionLists(MaxRegions)}

\* the bytes of a chunked response: whether they decode, whether the
\* markers of line 111 are found in them, and the text between the markers
Datas ==
    {[decodes |-> FALSE, familiar |-> FALSE, text |-> EmptyContent],
     [decodes |-> TRUE, familiar |-> FALSE, text |-> EmptyContent]}
    \cup {[decodes |-> TRUE, familiar |-> TRUE, text |-> c] : c \in Contents}

\* what a method of UserAgentMiner did: the exception it raised, whether it
\* opened the file for writing and what the file then holds, and whether
\* it appended that to the miner
minerRaises(e) ==
    [raised |-> e, wrote |-> FALSE, text |-> EmptyContent, appended |-> FALSE]

\* UserAgentMiner.write(json_str), lines 96-97: open(..., 'w') truncates
\* the file, and file.write(None) raises
write(json_str) ==
    [raised |-> IF json_str.none THEN "TypeError" ELSE "",
     wrote |-> TRUE,
     text |-> IF json_str.none THEN EmptyContent ELSE json_str.text,
     appended |-> FALSE]

\* lines 87-88 and 116-117: self.write(json_str), then self.append(json_str)
writeAndAppend(json_str) ==
    LET w == write(json_str)
    IN  IF w.raised # "" THEN w ELSE [w EXCEPT !.appended = TRUE]

\* lines 79-84: the loop over the regions, and the json_str it leaves
RECURSIVE findJson(_, _)
findJson(regions, i) ==
    IF i > Len(regions)
    THEN [raised |-> "", json_str |-> JsonStr(EmptyContent)]
    ELSE IF regions[i].h3 = "absent"
    THEN [raised |-> "IndexError", json_str |-> JsonStr(EmptyContent)]
    ELSE IF regions[i].h3 = "JSON"
    THEN IF regions[i].has
         THEN [raised |-> "", json_str |-> regions[i].textarea]
         ELSE [raised |-> "IndexError", json_str |-> JsonStr(EmptyContent)]
    ELSE findJson(regions, i + 1)

\* UserAgentMiner.run(dom)
run(dom) ==
    IF ~dom.section THEN minerRaises("IndexError")
    ELSE LET j == findJson(dom.regions, 1)
         IN  IF j.raised # "" THEN minerRaises(j.raised)
             ELSE IF j.json_str = JsonStr(EmptyContent) THEN minerRaises("ValueError")
             ELSE writeAndAppend(j.json_str)

\* UserAgentMiner.handle_chunked(data)
handle_chunked(data) ==
    IF ~data.decodes THEN minerRaises("UnicodeDecodeError")
    ELSE IF ~data.familiar THEN minerRaises("NotImplementedError")
    ELSE writeAndAppend(JsonStr(data.text))

\* lines 256-258 on the lists load_content can leave in uas and pcts: the
\* exceptions of random.choices, Browser and Platform ("" when none)
construction ==
    [p \in {uasOf(l) : l \in {m \in AgentLists(MaxAgents) :
                                 \A i \in 1..Len(m) : "ua" \in DOMAIN m[i]}}
           \X {pctsOf(l) : l \in {m \in AgentLists(MaxAgents) :
                                    \A i \in 1..Len(m) : "pct" \in DOMAIN m[i]}}
     |-> IF choicesRaises(p[1], p[2]) # ""
         THEN {choicesRaises(p[1], p[2])}
         ELSE {x.raised : x \in Environments(p[1], p[2], MinerDraws)}]

\* no update() call is in progress
NoCall == [phase |-> "none", found |-> <<>>]

InitCorpus ==
    /\ uas = <<>>
    /\ pcts = <<>>
    /\ ready = FALSE
    /\ updated = FALSE
    /\ file \in {NoFile} \cup {[exists |-> TRUE, content |-> c, mtime |-> 0] : c \in Contents}
    /\ now = 0
    /\ call = NoCall
    /\ last = [op |-> "start", raised |-> ""]
    /\ ParseIdle /\ MinerIdle /\ PolicyIdle

\* time passes, also while the event loop of update() runs
Tick ==
    /\ \E t \in Instants : t > now /\ now' = t
    /\ UNCHANGED <<uas, pcts, ready, updated, file, call, last>>
    /\ UNCHANGED <<parseVars, minerVars, policyVars>>

\* Environment.load_content(content), called by the user of the class or
\* by a callback of the event loop
LoadContent ==
    /\ \E content \in OneLineContents :
          LET r == load_content(content)
          IN  /\ uas' = r.uas
              /\ pcts' = r.pcts
              /\ ready' = r.ready
              /\ last' = [op |-> "load_content", raised |-> r.raised]
    /\ UNCHANGED <<updated, file, now, call>>
    /\ UNCHANGED <<parseVars, minerVars, policyVars>>

\* Environment(): lines 249-258, called by the user of the class or by a
\* callback of the event loop; open() at line 251 raises when the file is
\* not there
EnvironmentInit ==
    /\ LET same == [uas |-> uas, pcts |-> pcts, ready |-> ready]
           r == IF ready THEN same @@ [raised |-> ""]
                ELSE IF ~file.exists THEN same @@ [raised |-> "FileNotFoundError"]
                ELSE load_content(readline(file.content))
       IN  /\ uas' = r.uas
           /\ pcts' = r.pcts
           /\ ready' = r.ready
           /\ \E e \in IF r.raised # "" THEN {r.raised}
                       ELSE construction[<<r.uas, r.pcts>>] :
                 last' = [op |-> "Environment", raised |-> e]
    /\ UNCHANGED <<updated, file, now, call>>
    /\ UNCHANGED <<parseVars, minerVars, policyVars>>

\* lines 290-291: update() makes the UserAgentMiner and enters the event
\* loop, core.gear.mainloop()
enterLoop ==
    /\ call' = [phase |-> "loop", found |-> <<>>]
    /\ UNCHANGED <<uas, pcts, ready, updated, file, last>>

\* Environment.update() is called: lines 290-291
Update ==
    /\ call.phase = "none"
    /\ enterLoop
    /\ UNCHANGED now
    /\ UNCHANGED <<parseVars, minerVars, policyVars>>

\* Environment.setup(force): lines 304-307; update() is entered, False is
\* returned, or needs_update() raises
Setup ==
    /\ call.phase = "none"
    /\ \E force \in BOOLEAN :
          IF force \/ (needs_update.raised = "" /\ needs_update.value)
          THEN enterLoop
          ELSE /\ last' = [op |-> "setup", raised |-> needs_update.raised]
               /\ UNCHANGED <<uas, pcts, ready, updated, file, call>>
    /\ UNCHANGED now
    /\ UNCHANGED <<parseVars, minerVars, policyVars>>

\* A method of a UserAgentMiner on user-agent.json has done o. The miner is
\* the one update() made (own) or another one; call.found keeps the first
\* item of update()'s miner, the only one line 292 reads.
minerStep(o, own, op) ==
    /\ file' = IF o.wrote
               THEN [exists |-> TRUE, content |-> o.text, mtime |-> now]
               ELSE file
    /\ call' = IF own /\ o.appended /\ call.found = <<>>
               THEN [call EXCEPT !.found = <<o.text>>]
               ELSE call
    /\ last' = [op |-> op, raised |-> o.raised]
    /\ UNCHANGED <<uas, pcts, ready, updated, now>>

\* the miners a callback that did o can belong to: update()'s own (TRUE)
\* only while update() is in its loop, or another one (FALSE). Whose miner
\* it is shows only in what is appended, so one owner stands for both when
\* nothing is.
Owners(o) == IF call.phase = "loop" /\ o.appended THEN BOOLEAN ELSE {FALSE}

\* UserAgentMiner.setup(response), lines 59-66, on the responses: it calls
\* handle_chunked(data), or build_dom(data), which parses the page and
\* calls run(dom)
setup ==
    {handle_chunked(data) : data \in Datas} \cup {run(dom) : dom \in Doms}

\* a response arrives at a UserAgentMiner
MinerSetup ==
    /\ \E o \in setup : \E own \in Owners(o) : minerStep(o, own, "UserAgentMiner.setup")
    /\ UNCHANGED <<parseVars, minerVars, policyVars>>

\* UserAgentMiner.write(json_str), the public method, called on its own
MinerWrite ==
    /\ \E json_str \in JsonStrs : minerStep(write(json_str), FALSE, "UserAgentMiner.write")
    /\ UNCHANGED <<parseVars, minerVars, policyVars>>

\* the event loop has returned: lines 292-294. miner[0] raises IndexError
\* when the miner holds nothing.
UpdateReturns ==
    /\ call.phase = "loop"
    /\ call' = NoCall
    /\ IF call.found = <<>>
       THEN /\ last' = [op |-> "update", raised |-> "IndexError"]
            /\ UNCHANGED <<uas, pcts, ready, updated>>
       ELSE LET r == load_content(call.found[1])
            IN  /\ uas' = r.uas
                /\ pcts' = r.pcts
                /\ ready' = r.ready
                /\ updated' = IF r.raised = "" THEN TRUE ELSE updated
                /\ last' = [op |-> "update", raised |-> r.raised]
    /\ UNCHANGED <<file, now>>
    /\ UNCHANGED <<parseVars, minerVars, policyVars>>

NextCorpus ==
    \/ Tick
    \/ LoadContent
    \/ EnvironmentInit
    \/ Update
    \/ Setup
    \/ MinerSetup
    \/ MinerWrite
    \/ UpdateReturns

SpecCorpus == InitCorpus /\ [][NextCorpus]_vars


-----------------------------------------------------------------------------
(* The claims about the identity parser, checked under SpecParse.          *)

\* Browser(ua) has returned
BrowserBuilt == pc \in {"browser", "done", "raised"} /\ browser.raised = ""

Families == {CHROME, EDGE, FIREFOX, OPERA, SAFARI}

\* C1: an identity string that holds an Edge token ('Edg') or an Opera
\* token ('OPR') is never reported as Chrome, whether or not a Chrome token
\* is present and wherever the tokens stand.
C1_EdgeOperaNeverChrome ==
    (BrowserBuilt /\ (contains(ua, keyword(EDGE)) \/ contains(ua, keyword(OPERA))))
        => browser.type # CHROME

\* an Edge token after a Chrome token: the browser is Edge, on Chromium
C1_Witness ==
    /\ BrowserBuilt
    /\ find(ua, keyword(CHROME)) >= 0
    /\ find(ua, keyword(EDGE)) > find(ua, keyword(CHROME))
    /\ browser.type = EDGE
    /\ browser.chromium_version = 119

\* C2: for every identity string Browser(ua) parses, chromium_version >= 0
\* (uses_chromium()) if and only if the family is Chrome, Edge or Opera.
C2_ChromiumIffFamily ==
    BrowserBuilt =>
        (uses_chromium(browser) <=> browser.type \in {CHROME, EDGE, OPERA})

\* the token of family b is in s and what follows it is no integer
badVersion(s, b) ==
    /\ find(s, keyword(b)) >= 0
    /\ ~versionAt(s, find(s, keyword(b)), keyword(b)).ok

\* C3: when a family token is followed by text that is no integer, parsing
\* does not abort: no exception reaches the caller and the version field
\* concerned stays at -1.
C3_BadVersionDegrades ==
    (pc # "start" /\ \E b \in Families : badVersion(ua, b))
        => /\ browser.raised = ""
           /\ (browser.version = -1 \/ browser.chromium_version = -1)

\* s holds none of the family tokens
NoFamilyToken(s) == \A b \in Families : find(s, keyword(b)) < 0

\* C4: an identity string with none of the family tokens parses (Browser,
\* then Platform) to family NONE and version -1, and no exception escapes.
C4_NoTokenNoException ==
    NoFamilyToken(ua)
        => /\ pc # "raised"
           /\ (pc \in {"browser", "done"}
                  => browser.type = NONE /\ browser.version = -1)

\* C8: a brand list is made exactly when the browser is Chromium-based (its
\* family is Chrome, Edge or Opera), never for Firefox or Safari; it has 3 entries whose versions are, as a
\* multiset, a fake version in 1..100, version and chromium_version; the
\* entry of chromium_version is labelled 'Chromium' and the entry of version
\* carries one of the three brand names, never None.
C8_BrandList ==
    BrowserBuilt =>
        /\ (browser.brands # <<>>) <=> browser.type \in {CHROME, EDGE, OPERA}
        /\ browser.type \in {FIREFOX, SAFARI}
              => browser.brands = <<>> /\ browser.branding = <<>>
        /\ browser.brands # <<>> =>
              /\ Len(browser.brands) = 3
              /\ \E p \in Shuffles :
                    /\ browser.brands[p[1]][2] \in FakeVersionMin..FakeVersionMax
                    /\ browser.brands[p[2]][2] = browser.version
                    /\ browser.brands[p[2]][1] \in
                          {<<"G", "o", "o", "g", "l", "e", " ", "C", "h", "r", "o", "m", "e">>, <<"M", "i", "c", "r", "o", "s", "o", "f", "t", " ", "E", "d", "g", "e">>, <<"O", "p", "e", "r", "a">>}
                    /\ browser.brands[p[3]][2] = browser.chromium_version
                    /\ browser.brands[p[3]][1] = <<"C", "h", "r", "o", "m", "i", "u", "m">>

-----------------------------------------------------------------------------
(* The claims about the headers, checked under SpecMiner and SpecPolicy.   *)

hasSecKey(d) == \E k \in DOMAIN d : startswith(lower(k), <<"s", "e", "c", "-">>)

\* C5: when the miner's browser does not use Chromium, the headers its
\* constructor hands on hold no key whose lower-cased name starts with
\* 'sec-', whatever sec- keys the caller had set.
C5_NoSecHeaders ==
    \A i \in 1..Len(miners) :
        ~uses_chromium(miners[i].environment.browser)
            => ~hasSecKey(miners[i].sent)

\* a Firefox miner whose caller had set Sec-Fetch-Mode and x-trace
C5_Witness ==
    \E i \in 1..Len(miners) :
        /\ miners[i].environment.browser.type = FIREFOX
        /\ <<"S", "e", "c", "-", "F", "e", "t", "c", "h", "-", "M", "o", "d", "e">> \in miners[i].given
        /\ <<"x", "-", "t", "r", "a", "c", "e">> \in DOMAIN miners[i].sent

\* C6: every miner whose caller did not pass 'user-agent' carries its own
\* Environment's identity string, and, on Chromium, its own Environment's
\* branding unless the caller passed 'sec-ch-ua'; and the dict handed to an
\* earlier miner is as that miner's constructor left it.
C6_OwnIdentity ==
    \A i \in 1..Len(miners) :
        /\ <<"u", "s", "e", "r", "-", "a", "g", "e", "n", "t">> \notin miners[i].given
              => miners[i].sent[<<"u", "s", "e", "r", "-", "a", "g", "e", "n", "t">>] = miners[i].environment.ua
        /\ (uses_chromium(miners[i].environment.browser)
                /\ <<"s", "e", "c", "-", "c", "h", "-", "u", "a">> \notin miners[i].given)
              => miners[i].sent[<<"s", "e", "c", "-", "c", "h", "-", "u", "a">>]
                     = miners[i].environment.browser.branding
        /\ heap[miners[i].headers] = miners[i].sent

\* C7 as stated: the header block changes no key that was there before the
\* call, and a second run with the same Environment changes nothing.
C7_NoKeyChanged ==
    [][/\ \A k \in DOMAIN hdrs : k \in DOMAIN hdrs' /\ hdrs'[k] = hdrs[k]
       /\ applied >= 1 => hdrs' = hdrs]_vars

\* C7 amended: the header block changes the value of no key that was there
\* before the call, and removes such a key only when the browser does not
\* use Chromium and the key's lower-cased name starts with 'sec-'; a second
\* run with the same Environment changes nothing.
C7_ValuesKept ==
    [][/\ \A k \in DOMAIN hdrs :
             IF k \in DOMAIN hdrs'
             THEN hdrs'[k] = hdrs[k]
             ELSE ~uses_chromium(sess.browser) /\ startswith(lower(k), <<"s", "e", "c", "-">>)
       /\ applied >= 1 => hdrs' = hdrs]_vars

\* the block has run twice for Firefox on a dict that held the caller's
\* user-agent and a sec- key: the first is kept, the second gone
C7_Witness ==
    /\ applied = 2
    /\ sess.browser.type = FIREFOX
    /\ <<"u", "s", "e", "r", "-", "a", "g", "e", "n", "t">> \in DOMAIN hdrs
    /\ hdrs[<<"u", "s", "e", "r", "-", "a", "g", "e", "n", "t">>] = <<"c", "a", "l", "l", "e", "r">>
    /\ <<"a", "c", "c", "e", "p", "t", "-", "l", "a", "n", "g", "u", "a", "g", "e">> \in DOMAIN hdrs
    /\ ~hasSecKey(hdrs)

-----------------------------------------------------------------------------
(* The claims about the corpus, checked under SpecCorpus.                  *)

\* C9: at every moment, with the file there, needs_update() says a refresh
\* is due if and only if the file was last written a day or more ago.
C9_DueIffDayOld ==
    file.exists =>
        /\ needs_update.raised = ""
        /\ needs_update.value <=> (now - file.mtime >= SEC_DAY)

\* C10: whenever the corpus is ready, uas and pcts are the 'ua' and 'pct'
\* of the records of one source; and a load_content call that raises leaves
\* uas, pcts and ready as they were.
C10_LoadAllOrNothing ==
    [][/\ ready' =>
             \E c \in Documents :
                /\ c.decodes
                /\ \A i \in 1..Len(c.agents) : DOMAIN c.agents[i] = {"ua", "pct"}
                /\ uas' = uasOf(c.agents)
                /\ pcts' = pctsOf(c.agents)
       /\ (last'.op = "load_content" /\ last'.raised # "")
             => UNCHANGED <<uas, pcts, ready>>]_vars

====
